---- MODULE Spec2Model ----
(***************************************************************************)
(* asetool: convert / assemble / separate over an Aseprite document.       *)
(* One invocation of the tool is one behaviour: the parsed command line    *)
(* and the document on disk are fixed by Init, the subcommand then runs    *)
(* step by step until `result` leaves "Running".                           *)
(*                                                                         *)
(* usize values (64 bit) are kept as wide numbers [hi, lo] of value        *)
(* hi * 2^15 + lo, so that the casts `as u32` and `as i32` of main.rs wrap *)
(* at their real width.                                                    *)
(***************************************************************************)
EXTENDS Integers, Sequences, FiniteSets, TLC

\* ---------------------------------------------------------------- bounds
MaxTags == 2
MaxFrames == 3
MaxSide == 2
MaxK == 2
MaxCols == 3

\* ------------------------------------------------- wide (usize) numbers
Base == 2^15

BigOf(n) == [hi |-> n \div Base, lo |-> n % Base]

Zero == BigOf(0)

BigLt(a, b) == a.hi < b.hi \/ (a.hi = b.hi /\ a.lo < b.lo)

BigLe(a, b) == ~BigLt(b, a)

BigAdd(a, b) ==
    LET s == a.lo + b.lo
    IN  [hi |-> a.hi + b.hi + (s \div Base), lo |-> s % Base]

\* a - b for a >= b
BigSub(a, b) ==
    LET d == a.lo - b.lo
    IN  IF d >= 0 THEN [hi |-> a.hi - b.hi, lo |-> d]
                  ELSE [hi |-> a.hi - b.hi - 1, lo |-> d + Base]

\* a * s, s a small natural
BigMul(a, s) ==
    LET p == a.lo * s
    IN  [hi |-> a.hi * s + (p \div Base), lo |-> p % Base]

\* quotient and remainder of a by b, b # 0
BigDivMod(a, b) ==
    IF b.hi = 0
    THEN LET d == b.lo
             t == (a.hi % d) * Base + a.lo
         IN  [q |-> [hi |-> a.hi \div d, lo |-> t \div d], r |-> BigOf(t % d)]
    ELSE LET q == CHOOSE n \in (a.hi \div (b.hi + 1))..(a.hi \div b.hi) :
                      BigLe(BigMul(b, n), a) /\ BigLt(a, BigMul(b, n + 1))
         IN  [q |-> BigOf(q), r |-> BigSub(a, BigMul(b, q))]

\* usize::div_ceil
DivCeil(a, b) ==
    LET d == BigDivMod(a, b)
    IN  IF d.r = Zero THEN d.q ELSE BigAdd(d.q, BigOf(1))

\* `x as u32`: the low 32 bits
AsU32(a) == [hi |-> a.hi % (2^17), lo |-> a.lo]

\* `x as i32`: the low 32 bits read as two's complement
AsI32(a) ==
    LET u == AsU32(a)
    IN  IF u.hi >= 2^16 THEN (u.hi - 2^17) * Base + u.lo
                        ELSE u.hi * Base + u.lo

\* ------------------------------------------------------------ the inputs
\* NonZeroU32 values the parser accepts: small ones and the ends of the
\* upper half of the u32 range
U32Edge == { [hi |-> 2^16, lo |-> 0],             \* 2^31
             [hi |-> 2^16, lo |-> 1],             \* 2^31 + 1
             [hi |-> 2^17 - 1, lo |-> Base - 1] } \* 2^32 - 1

NonZeroU32(max) == { BigOf(n) : n \in 1..max } \cup U32Edge

\* Option<NonZeroU32>: <<>> is None, <<v>> is Some(v)
OptionNonZeroU32(max) == { <<>> } \cup { <<v>> : v \in NonZeroU32(max) }

\* tag names a user may type; "c" is never a tag of the document
TagNames == {"a", "b", "c"}

\* Vec<String> of -t/--tags: the option is not `required`, so it may be empty
TagLists == UNION { [1..n -> TagNames] : n \in 0..MaxTags }

\* documents the decoder can deliver: N frames of W x H and two tags with
\* inclusive ranges inside [0, N): a = [0, m] and b = [m, N - 1]
Documents ==
    { [num_frames |-> n, width |-> w, height |-> h,
       tagtab |-> [a |-> [from |-> 0, to |-> m], b |-> [from |-> m, to |-> n - 1]]] :
         n \in 1..MaxFrames, w \in 1..MaxSide, h \in 1..MaxSide,
         m \in 0..(MaxFrames - 1) }

\* the tag ranges lie inside the document; the canvas is at most
\* MaxSide pixels wide or high, and not both
WellFormed(d) ==
    /\ d.tagtab.a.to < d.num_frames
    /\ d.width + d.height <= MaxSide + 1

\* ---------------------------------------------------------------- state
VARIABLES
    action,                      \* cli.action: the subcommand
    tags,                        \* --tags
    number_of_frames_from_each,  \* --number-of-frames-from-each
    columns,                     \* --columns
    input_file,                  \* the document read_file delivers
    pc,                          \* position in the running subcommand
    tag_count,                   \* index of the tag being processed
    i,                           \* inner loop counter of assemble
    output_image,                \* the sheet under construction
    copies,                      \* history: the calls of imageops::replace
    fs,                          \* the file system: path -> image or NoFile
    writes,                      \* history: the successful save calls
    result,                      \* "Running", "Ok" or the error kind
    err                          \* the fields of the error message

vars == <<action, tags, number_of_frames_from_each, columns, input_file, pc,
          tag_count, i, output_image, copies, fs, writes, result, err>>

args == <<action, tags, number_of_frames_from_each, columns, input_file>>

\* ------------------------------------------------------------- decoder
TagDefined(name) == name \in DOMAIN input_file.tagtab

\* tag_by_name, for a defined name
tag_by_name(name) == input_file.tagtab[name]

\* the pixel at (x, y) of frame f: every pixel of every frame is distinct
\* and none is the transparent pixel 0
FramePixel(f, x, y) == 1 + (f * input_file.height + y) * input_file.width + x

\* frame(f).image(): a W x H raster
FrameImage(f) ==
    [w |-> BigOf(input_file.width), h |-> BigOf(input_file.height),
     px |-> [p \in { <<BigOf(x), BigOf(y)>> : x \in 0..(input_file.width - 1),
                                               y \in 0..(input_file.height - 1) } |->
                FramePixel(f, p[1].lo, p[2].lo)]]

\* ---------------------------------------------------------- file system
NoPixels == [p \in {} |-> 0]

NoFile == [w |-> Zero, h |-> Zero, px |-> NoPixels, absent |-> TRUE]

\* Path::new(&self.output_file)
OutputFile == <<"output_file">>

\* output_path.join(format!("{tag}.png"))
TagFile(tag) == <<"output_directory", tag, ".png">>

Paths == {OutputFile} \cup { TagFile(t) : t \in TagNames }

NoError == [tag |-> "", have |-> 0, need |-> Zero, found |-> 0]

\* RgbaImage::new(w, h): every pixel (0,0,0,0); px lists the pixels written
\* since, all others are still 0
NewImage(w, h) == [w |-> w, h |-> h, px |-> NoPixels]

Init ==
    /\ action \in {"Convert", "Assemble", "Separate"}
    /\ input_file \in { d \in Documents : WellFormed(d) }
    /\ tags \in IF action = "Convert" THEN { <<>> } ELSE TagLists
    /\ number_of_frames_from_each \in
          IF action = "Assemble" THEN OptionNonZeroU32(MaxK) ELSE { <<>> }
    /\ columns \in IF action = "Assemble" THEN OptionNonZeroU32(MaxCols) ELSE { <<>> }
    /\ pc = "read_file"
    /\ tag_count = 0
    /\ i = 0
    /\ output_image = NewImage(Zero, Zero)
    /\ copies = <<>>
    /\ fs = [p \in Paths |-> NoFile]
    /\ writes = <<>>
    /\ result = "Running"
    /\ err = NoError

\* ----------------------------------------------------------------- save
\* image.save(path) that succeeds: the file holds the image; the PNG
\* encoder rejects an image with no pixels
SaveOk(path, image) ==
    /\ image.w # Zero
    /\ image.h # Zero
    /\ fs' = [fs EXCEPT ![path] = image]
    /\ writes' = Append(writes, [path |-> path, image |-> image])

\* image.save(path) that fails: "Cannot save image to ..."
SaveErr ==
    /\ result' = "WriteError"
    /\ pc' = "done"
    /\ UNCHANGED <<fs, writes>>

\* read_file that fails: "... can't be loaded"
LoadErr ==
    /\ result' = "LoadError"
    /\ pc' = "done"

\* -------------------------------------------------------------- Convert
\* variant: rejects only a document without frames
NotSingleFrameLoose == input_file.num_frames < 1

\* input_file.num_frames() != 1
NotSingleFrame == input_file.num_frames # 1

convert ==
    /\ action = "Convert"
    /\ pc = "read_file"
    /\ \/ /\ LoadErr
          /\ UNCHANGED <<err, fs, writes>>
       \/ /\ NotSingleFrame
          /\ result' = "WrongFrameCount"
          /\ err' = [err EXCEPT !.found = input_file.num_frames]
          /\ pc' = "done"
          /\ UNCHANGED <<fs, writes>>
       \/ /\ ~NotSingleFrame
          /\ \/ /\ SaveOk(OutputFile, FrameImage(0))
                /\ result' = "Ok"
                /\ pc' = "done"
             \/ SaveErr
          /\ UNCHANGED err
    /\ UNCHANGED <<args, tag_count, i, output_image, copies>>

\* ------------------------------------------------------------- Separate
\* variant: the last frame of the tag
TagFrameLast(image_tag) == image_tag.to

\* the frame separate writes for a tag: image_tag.from_frame()
TagFrame(image_tag) == image_tag.from

separate_open ==
    /\ action = "Separate"
    /\ pc = "read_file"
    /\ \/ LoadErr
       \/ /\ pc' = "separate_tag"
          /\ UNCHANGED result
    /\ UNCHANGED <<args, tag_count, i, output_image, copies, fs, writes, err>>

\* one iteration of `for tag in self.tags.iter()`
separate_tag ==
    /\ action = "Separate"
    /\ pc = "separate_tag"
    /\ tag_count < Len(tags)
    /\ LET tag == tags[tag_count + 1]
       IN  IF ~TagDefined(tag)
           THEN /\ result' = "TagMissing"
                /\ err' = [err EXCEPT !.tag = tag]
                /\ pc' = "done"
                /\ UNCHANGED <<fs, writes, tag_count>>
           ELSE /\ \/ /\ SaveOk(TagFile(tag), FrameImage(TagFrame(tag_by_name(tag))))
                      /\ tag_count' = tag_count + 1
                      /\ UNCHANGED <<pc, result>>
                   \/ /\ SaveErr
                      /\ UNCHANGED tag_count
                /\ UNCHANGED err
    /\ UNCHANGED <<args, i, output_image, copies>>

\* the loop is over: Ok(())
separate_ok ==
    /\ action = "Separate"
    /\ pc = "separate_tag"
    /\ tag_count = Len(tags)
    /\ result' = "Ok"
    /\ pc' = "done"
    /\ UNCHANGED <<args, tag_count, i, output_image, copies, fs, writes, err>>

\* ------------------------------------------------------------- Assemble
\* self.number_of_frames_from_each.map(|x| x.get()).unwrap_or(1) as usize
FramesFromEach ==
    IF number_of_frames_from_each = <<>> THEN BigOf(1)
                                         ELSE number_of_frames_from_each[1]

total_image_count == BigMul(FramesFromEach, Len(tags))

total_columns ==
    IF columns = <<>> THEN total_image_count ELSE columns[1]

total_width == BigMul(total_columns, input_file.width)

\* defined when total_columns # 0
total_height ==
    BigMul(DivCeil(total_image_count, total_columns), input_file.height)

\* to_frame() as i32 - from_frame() as i32 + 1 < number_of_frames_from_each as i32
TooFewFrames(image_tag) ==
    image_tag.to - image_tag.from + 1 < AsI32(FramesFromEach)

\* the count the error message prints: to_frame() as i32 - from_frame() as i32
FramesReported(image_tag) == image_tag.to - image_tag.from

\* variant: the tag index is not scaled by the frames per tag
image_count_flat(tc, ii) == BigAdd(BigOf(tc), BigOf(ii))

image_count(tc, ii) == BigAdd(BigMul(FramesFromEach, tc), BigOf(ii))

x_image(tc, ii) == BigDivMod(image_count(tc, ii), total_columns).r

y_image(tc, ii) == BigDivMod(image_count(tc, ii), total_columns).q

x_pixel(tc, ii) == BigMul(x_image(tc, ii), input_file.width)

y_pixel(tc, ii) == BigMul(y_image(tc, ii), input_file.height)

\* the frame the inner loop reads: image_tag.from_frame() + i as u32
SourceFrame(image_tag, ii) == image_tag.from + ii

\* imageops::replace(bottom, top, x, y): the pixels of top that fall inside
\* bottom replace the pixels there, byte for byte; the rest of top is cropped
Replace(bottom, top, x, y) ==
    LET hit == { p \in DOMAIN top.px : /\ BigLt(BigAdd(x, p[1]), bottom.w)
                                       /\ BigLt(BigAdd(y, p[2]), bottom.h) }
        dst(p) == <<BigAdd(x, p[1]), BigAdd(y, p[2])>>
        new == { dst(p) : p \in hit }
    IN  [bottom EXCEPT !.px =
            [q \in (DOMAIN bottom.px) \cup new |->
                IF q \in new THEN top.px[CHOOSE p \in hit : dst(p) = q]
                             ELSE bottom.px[q]]]

\* lines 75-98: load, compute the layout, allocate the sheet
assemble_layout ==
    /\ action = "Assemble"
    /\ pc = "read_file"
    /\ \/ /\ LoadErr
          /\ UNCHANGED output_image
       \/ /\ total_columns = Zero      \* div_ceil: division by zero
          /\ result' = "Panic"
          /\ pc' = "done"
          /\ UNCHANGED output_image
       \/ /\ total_columns # Zero
          /\ output_image' = NewImage(AsU32(total_width), AsU32(total_height))
          /\ pc' = "tag"
          /\ UNCHANGED result
    /\ UNCHANGED <<args, tag_count, i, copies, fs, writes, err>>

\* variant: every name of the selection is resolved before any range is checked
assemble_tag_resolve_first ==
    /\ action = "Assemble"
    /\ pc = "tag"
    /\ tag_count < Len(tags)
    /\ LET tag == tags[tag_count + 1]
           missing == { j \in 1..Len(tags) : ~TagDefined(tags[j]) }
       IN  IF missing # {}
           THEN /\ result' = "TagMissing"
                /\ err' = [err EXCEPT !.tag = tags[CHOOSE j \in missing :
                                                     \A m \in missing : j <= m]]
                /\ pc' = "done"
           ELSE IF TooFewFrames(tag_by_name(tag))
           THEN /\ result' = "InsufficientFrames"
                /\ err' = [err EXCEPT !.tag = tag,
                                      !.have = FramesReported(tag_by_name(tag)),
                                      !.need = FramesFromEach]
                /\ pc' = "done"
           ELSE /\ pc' = "copy"
                /\ UNCHANGED <<result, err>>
    /\ i' = 0
    /\ UNCHANGED <<args, tag_count, output_image, copies, fs, writes>>

\* lines 100-113: resolve the next tag and check its range
assemble_tag ==
    /\ action = "Assemble"
    /\ pc = "tag"
    /\ tag_count < Len(tags)
    /\ LET tag == tags[tag_count + 1]
       IN  IF ~TagDefined(tag)
           THEN /\ result' = "TagMissing"
                /\ err' = [err EXCEPT !.tag = tag]
                /\ pc' = "done"
           ELSE IF TooFewFrames(tag_by_name(tag))
           THEN /\ result' = "InsufficientFrames"
                /\ err' = [err EXCEPT !.tag = tag,
                                      !.have = FramesReported(tag_by_name(tag)),
                                      !.need = FramesFromEach]
                /\ pc' = "done"
           ELSE /\ pc' = "copy"
                /\ UNCHANGED <<result, err>>
    /\ i' = 0
    /\ UNCHANGED <<args, tag_count, output_image, copies, fs, writes>>

\* lines 115-129: one iteration of `for i in 0..number_of_frames_from_each`
assemble_copy ==
    /\ action = "Assemble"
    /\ pc = "copy"
    /\ LET image_tag == tag_by_name(tags[tag_count + 1])
           src == SourceFrame(image_tag, i)
           x == AsU32(x_pixel(tag_count, i))
           y == AsU32(y_pixel(tag_count, i))
           last == BigOf(i + 1) = FramesFromEach
           panic == /\ result' = "Panic"
                    /\ pc' = "done"
                    /\ UNCHANGED <<output_image, copies, i, tag_count>>
       IN  IF src >= input_file.num_frames
           THEN panic                    \* frame(): index out of range
           ELSE /\ output_image' = Replace(output_image, FrameImage(src), x, y)
                /\ copies' = Append(copies, [src |-> src, x |-> x, y |-> y])
                /\ i' = IF last THEN 0 ELSE i + 1
                /\ tag_count' = IF last THEN tag_count + 1 ELSE tag_count
                /\ pc' = IF last THEN "tag" ELSE "copy"
                /\ UNCHANGED result
    /\ UNCHANGED <<args, fs, writes, err>>

\* variant: the save sits inside the tag loop
assemble_save_early ==
    /\ action = "Assemble"
    /\ pc = "tag"
    /\ tag_count <= Len(tags)
    /\ \/ /\ SaveOk(OutputFile, output_image)
          /\ result' = "Ok"
          /\ pc' = "done"
       \/ SaveErr
    /\ UNCHANGED <<args, tag_count, i, output_image, copies, err>>

\* lines 132-137: the loop is over, save the sheet
assemble_save ==
    /\ action = "Assemble"
    /\ pc = "tag"
    /\ tag_count = Len(tags)
    /\ \/ /\ SaveOk(OutputFile, output_image)
          /\ result' = "Ok"
          /\ pc' = "done"
       \/ SaveErr
    /\ UNCHANGED <<args, tag_count, i, output_image, copies, err>>

Next ==
    \/ convert
    \/ separate_open
    \/ separate_tag
    \/ separate_ok
    \/ assemble_layout
    \/ assemble_tag
    \/ assemble_copy
    \/ assemble_save

Spec == Init /\ [][Next]_vars

TypeOK ==
    /\ pc \in {"read_file", "separate_tag", "tag", "copy", "done"}
    /\ result \in {"Running", "Ok", "LoadError", "WrongFrameCount", "TagMissing",
                   "InsufficientFrames", "WriteError", "Panic"}
    /\ (pc = "done") = (result # "Running")

\* =================================================== vocabulary of the claims
T == Len(tags)

K == FramesFromEach

W == input_file.width

H == input_file.height

\* the value of a wide number below 2^31
ToInt(b) == b.hi * Base + b.lo

\* cols: the --columns value when given, T*K otherwise
Cols == IF columns = <<>> THEN BigMul(K, T) ELSE columns[1]

\* the inclusive length of a tag's range
TagLen(name) == tag_by_name(name).to - tag_by_name(name).from + 1

AllResolve == \A j \in 1..T : TagDefined(tags[j])

\* the j-th selected tag exists and has at least K frames
HasK(j) == TagDefined(tags[j]) /\ BigLe(K, BigOf(TagLen(tags[j])))

\* T >= 1, every selected tag exists and has at least K frames
ValidInput == T >= 1 /\ \A j \in 1..T : HasK(j)

\* the source frame of placement idx
PlacementSource(idx) ==
    tag_by_name(tags[(idx \div ToInt(K)) + 1]).from + (idx % ToInt(K))

\* the pixel offset of placement idx
PlacementX(idx) == BigMul(BigDivMod(BigOf(idx), Cols).r, W)

PlacementY(idx) == BigMul(BigDivMod(BigOf(idx), Cols).q, H)

\* top lies wholly inside bottom when put at (x, y)
Inside(bottom, top, x, y) ==
    /\ BigLe(BigAdd(x, top.w), bottom.w)
    /\ BigLe(BigAdd(y, top.h), bottom.h)

\* the pixel of an image at q
PixelAt(image, q) == IF q \in DOMAIN image.px THEN image.px[q] ELSE 0

\* the index of the grid cell that holds pixel q
CellOf(q) ==
    BigAdd(BigMul(Cols, ToInt(BigDivMod(q[2], BigOf(H)).q)),
           BigDivMod(q[1], BigOf(W)).q)

\* the position in the selection of the first name that is not a tag
FirstMissing ==
    CHOOSE j \in 1..T : ~TagDefined(tags[j]) /\ \A m \in 1..(j - 1) : TagDefined(tags[m])

AssembleRan == action = "Assemble" /\ pc = "done" /\ result # "LoadError"

\* ================================================================== claims

C2_SheetDimensions ==
    (action = "Assemble" /\ pc \in {"tag", "copy"}) =>
        /\ output_image.w = BigMul(Cols, W)
        /\ output_image.h = BigMul(DivCeil(BigMul(K, T), Cols), H)

\* C3: after a successful assemble every cell i < T*K lies wholly inside
\* the sheet and holds exactly the pixels of placement i's source frame,
\* and every pixel of every cell with index >= T*K is still (0,0,0,0).
C3_PixelFidelity ==
    (action = "Assemble" /\ result = "Ok") =>
        LET M == IF T = 0 THEN 0 ELSE T * ToInt(K)
        IN  /\ \A idx \in 0..(M - 1) :
                 LET top == FrameImage(PlacementSource(idx))
                     x == PlacementX(idx)
                     y == PlacementY(idx)
                 IN  /\ Inside(output_image, top, x, y)
                     /\ \A p \in DOMAIN top.px :
                           PixelAt(output_image, <<BigAdd(x, p[1]), BigAdd(y, p[2])>>)
                              = top.px[p]
            /\ \A q \in DOMAIN output_image.px :
                 output_image.px[q] # 0 => BigLt(CellOf(q), BigOf(M))

\* C4: for every K the parser accepts and every selection whose tags all
\* resolve, assemble fails with InsufficientFrames if and only if some
\* selected tag has to - from + 1 < K.
C4_InsufficientIff ==
    (AssembleRan /\ AllResolve) =>
        ((result = "InsufficientFrames")
            <=> (\E j \in 1..T : BigLt(BigOf(TagLen(tags[j])), K)))

\* C5: an InsufficientFrames error reports have = to - from + 1 of the tag
\* it names and need = K.
C5_ReportedCounts ==
    (action = "Assemble" /\ result = "InsufficientFrames") =>
        /\ err.have = TagLen(err.tag)
        /\ err.need = K

\* C6: assemble writes the output file at most once, and only after every
\* selected tag has been resolved and range-validated and every placement
\* copied; a run that ends with TagMissing or InsufficientFrames has
\* written no file.
C6_WriteOnceAtEnd ==
    action = "Assemble" =>
        /\ Len(writes) <= 1
        /\ (writes # <<>>) =>
              /\ result = "Ok"
              /\ tag_count = T
              /\ \A j \in 1..T : HasK(j)
              /\ Len(copies) = T * ToInt(K)
              /\ writes[1] = [path |-> OutputFile, image |-> output_image]
        /\ (result \in {"TagMissing", "InsufficientFrames"}) =>
              /\ writes = <<>>
              /\ \A p \in Paths : fs[p] = NoFile

\* the second tag of the selection fails its range check after the first
\* tag's frames were copied, and nothing was written
C6_Witness ==
    /\ action = "Assemble"
    /\ result = "InsufficientFrames"
    /\ tag_count = 1
    /\ copies # <<>>
    /\ writes = <<>>
    /\ fs[OutputFile] = NoFile

\* C7: in every assemble run that got past argument parsing and reached the
\* layout computation, T >= 1, K >= 1 and cols >= 1.
C7_PositiveLayoutInputs ==
    (action = "Assemble" /\ (pc \in {"tag", "copy"} \/ AssembleRan)) =>
        /\ T >= 1
        /\ BigLe(BigOf(1), K)
        /\ BigLe(BigOf(1), Cols)

\* C8: separate processes the tags in the given order and writes
\* <output_dir>/<tag>.png holding frame(tag.from) for each; when the j-th
\* tag fails, the files of tags 0..j-1 are written and stay in place and
\* nothing is written for tag j or a later tag.
C8_SeparateInOrder ==
    action = "Separate" =>
        /\ Len(writes) = tag_count
        /\ tag_count <= T
        /\ \A n \in 1..Len(writes) :
              /\ TagDefined(tags[n])
              /\ writes[n] = [path |-> TagFile(tags[n]),
                              image |-> FrameImage(tag_by_name(tags[n]).from)]
        /\ \A p \in Paths :
              IF \E n \in 1..Len(writes) : writes[n].path = p
              THEN \E n \in 1..Len(writes) : writes[n].path = p /\ fs[p] = writes[n].image
              ELSE fs[p] = NoFile
        /\ (result = "Ok") => tag_count = T
        /\ (result \in {"TagMissing", "WriteError"}) => tag_count < T
        /\ (result = "TagMissing") =>
              ~TagDefined(tags[tag_count + 1]) /\ err.tag = tags[tag_count + 1]
        /\ (result = "WriteError") => TagDefined(tags[tag_count + 1])

\* the second tag is missing: the first tag's file is in place, no other
C8_Witness ==
    /\ action = "Separate"
    /\ result = "TagMissing"
    /\ tag_count = 1
    /\ Len(writes) = 1
    /\ fs[TagFile(tags[1])] = FrameImage(tag_by_name(tags[1]).from)
    /\ tag_by_name(tags[1]).from # tag_by_name(tags[1]).to

\* C9: convert on a loaded document fails with WrongFrameCount(found), found
\* the document's frame count and nothing written, if and only if the frame
\* count is not 1; with one frame it writes exactly frame 0 to the output.
C9_ConvertSingleFrame ==
    (action = "Convert" /\ pc = "done" /\ result # "LoadError") =>
        /\ (result = "WrongFrameCount") <=> (input_file.num_frames # 1)
        /\ (result = "WrongFrameCount") =>
              /\ err.found = input_file.num_frames
              /\ writes = <<>>
              /\ \A p \in Paths : fs[p] = NoFile
        /\ (input_file.num_frames = 1) =>
              /\ result \in {"Ok", "WriteError"}
              /\ (result = "Ok") =>
                    /\ writes = << [path |-> OutputFile, image |-> FrameImage(0)] >>
                    /\ fs[OutputFile] = FrameImage(0)
                    /\ \A p \in Paths \ {OutputFile} : fs[p] = NoFile
              /\ (result = "WriteError") => writes = <<>>

\* a document of several frames is refused and nothing is written
C9_Witness ==
    /\ action = "Convert"
    /\ result = "WrongFrameCount"
    /\ err.found > 1
    /\ writes = <<>>

\* C10 as stated: whenever the selection contains a name that is not a tag,
\* the run fails with TagMissing for the first such name, whatever the frame
\* ranges of the tags before it.
C10_ResolveBeforeValidate ==
    (AssembleRan /\ ~AllResolve) =>
        /\ result = "TagMissing"
        /\ err.tag = tags[FirstMissing]

\* C10 amended: tags are resolved and range-checked one at a time in
\* selection order, so when the selection contains a name that is not a
\* tag, the run fails with TagMissing for the first such name if and only
\* if every tag before it in the selection has at least K frames.
C10_OneTagAtATime ==
    (AssembleRan /\ ~AllResolve) =>
        /\ (result = "TagMissing") <=> (\A m \in 1..(FirstMissing - 1) : HasK(m))
        /\ (result = "TagMissing") =>
              /\ err.tag = tags[FirstMissing]
              /\ tag_count = FirstMissing - 1

\* the second name is missing and the first tag's two frames were copied
C10_Witness ==
    /\ action = "Assemble"
    /\ result = "TagMissing"
    /\ tag_count = 1
    /\ K = BigOf(2)
    /\ Len(copies) = 2

====
